---- MODULE Spec2Model ----
(***************************************************************************)
(* Artists of the COMPAS fork: the Blender NetworkArtist together with the *)
(* Blender object utilities it deletes through, and the GhPython           *)
(* MeshArtist.  A call is one step: the ghost variable `call` (`mcall`)    *)
(* records the operation, its arguments, the state before it, the host     *)
(* drawing calls it issued and what it returned or raised; the step        *)
(* Return hands the result to the caller and makes the artist idle again.  *)
(***************************************************************************)
EXTENDS Integers, Sequences, FiniteSets, TLC

VARIABLES
    live,         \* which part of the library the script uses
    bpy,          \* bpy.data: objects (handle -> type, data, name), meshes, curves, lights
    nextId,       \* the handle the host gives to the next object it creates
    network,      \* NetworkArtist.network
    settings,     \* NetworkArtist.settings
    object_node,  \* NetworkArtist._object_node: handle -> node key
    object_edge,  \* NetworkArtist._object_edge: handle -> edge key
    object_path,  \* NetworkArtist._object_path: handle -> path key
    created,      \* ghost: every handle a host drawing call of this artist returned
    call,         \* ghost: the call in progress / just finished
    mesh,         \* MeshArtist.mesh
    msettings,    \* MeshArtist.settings
    mcall         \* ghost: the MeshArtist call just finished

vars == <<live, bpy, nextId, network, settings, object_node, object_edge, object_path,
          created, call, mesh, msettings, mcall>>

netvars == <<network, settings, object_node, object_edge, object_path, created>>
meshvars == <<mesh, msettings, mcall>>

-----------------------------------------------------------------------------
(* Bounds *)

\* most nodes of a network
MaxNodes == 2
\* most vertices of a mesh
MaxVerts == 3
\* longest list of keys passed to a draw_* call
MaxLen == 2
\* last handle the host may hand out
MaxId == 5
\* most objects of a scene the object utilities are tried on
MaxObjs == 2

-----------------------------------------------------------------------------
(* Python values *)

None == [tag |-> "None"]
List(s) == [tag |-> "list", value |-> s]
Dict(f) == [tag |-> "dict", value |-> f]
Rgb(c) == [tag |-> "rgb", value |-> c]
Str(s) == [tag |-> "str", value |-> s]

Range(s) == {s[i] : i \in DOMAIN s}
EmptyDict == [x \in {} |-> x]

\* every sequence of distinct elements of S of length at most n
SeqsUpTo(S, n) ==
    {q \in UNION {[1..k -> S] : k \in 0..n} : \A i, j \in DOMAIN q : i # j => q[i] # q[j]}

\* every dict whose keys are some of K and whose values are in V
DictsOver(K, V) == UNION {[D -> V] : D \in SUBSET K}

\* Python truthiness of None, a list or a dict
Truthy(v) ==
    CASE v.tag = "None" -> FALSE
      [] v.tag = "list" -> Len(v.value) > 0
      [] v.tag = "dict" -> DOMAIN v.value # {}
      [] OTHER -> TRUE

\* dict.update
Update(d, e) == [k \in DOMAIN d \cup DOMAIN e |-> IF k \in DOMAIN e THEN e[k] ELSE d[k]]

\* dict(zip(objects, keys))
ZipDict(objects, keys) ==
    LET n == IF Len(objects) < Len(keys) THEN Len(objects) ELSE Len(keys)
    IN  [h \in {objects[i] : i \in 1..n} |->
            keys[CHOOSE i \in 1..n : objects[i] = h /\ \A j \in 1..n : objects[j] = h => j <= i]]

\* str(key) / "{}".format(key)
Format(key) == <<"str", key>>

White == <<255, 255, 255>>
Black == <<0, 0, 0>>
Grey == <<210, 210, 210>>
Red == <<255, 0, 0>>

-----------------------------------------------------------------------------
(* The data structures of the geometry library: a named list of vertex     *)
(* (node) keys, of edges as pairs of keys, and of face keys.               *)

Datastructure(name, n) ==
    [name |-> name,
     vertices |-> [i \in 1..n |-> i - 1],
     edges |-> [i \in 1..(IF n > 0 THEN n - 1 ELSE 0) |-> <<i - 1, i>>],
     faces |-> [i \in 1..(IF n > 1 THEN n - 2 ELSE 0) |-> i - 1]]

Networks == {Datastructure("Network", n) : n \in 0..MaxNodes}
Meshes == {Datastructure("Mesh", n) : n \in 0..MaxVerts}

\* the coordinate accessors of the library, kept symbolic
node_coordinates(key) == <<"xyz", key>>
vertex_coordinates(key) == <<"xyz", key>>
edge_coordinates(u, v) == <<<<"xyz", u>>, <<"xyz", v>>>>
face_coordinates(fkey) == <<"points", fkey>>
face_center(fkey) == <<"center", fkey>>
edge_midpoint(u, v) == <<"mid", u, v>>

\* compas.utilities.color_to_colordict: the default colour with overrides
color_to_colordict(color, keys, default) ==
    LET c == IF Truthy(color) THEN color ELSE Rgb(default)
    IN  CASE c.tag = "dict" ->
                [k \in Range(keys) |-> IF k \in DOMAIN c.value THEN c.value[k] ELSE default]
          [] OTHER -> [k \in Range(keys) |-> c.value]

-----------------------------------------------------------------------------
(* The host scene, bpy.data: the objects by handle, and the data blocks.   *)

Block(id) == [tag |-> "block", id |-> id]

\* bpy.data.objects.remove(obj)
objects_remove(data, obj) ==
    [data EXCEPT !.objects = [h \in DOMAIN data.objects \ {obj} |-> data.objects[h]]]

\* bpy.data.meshes.remove(mesh)
meshes_remove(data, block) == [data EXCEPT !.meshes = @ \ {block.id}]

\* bpy.data.curves.remove(curve)
curves_remove(data, block) == [data EXCEPT !.curves = @ \ {block.id}]

delete_object_all_data(data, obj) ==
    LET o == data.objects[obj]
        d == objects_remove(data, obj)
    IN  IF ~Truthy(o.data) THEN d
        ELSE [d EXCEPT !.meshes = @ \ (IF o.type = "MESH" THEN {o.data.id} ELSE {}),
                       !.curves = @ \ (IF o.type = "CURVE" THEN {o.data.id} ELSE {}),
                       !.lights = @ \ (IF o.type = "LIGHT" THEN {o.data.id} ELSE {})]

delete_object(data, obj) ==
    LET o == data.objects[obj]
    IN  IF o.type = "MESH"
        THEN LET d == objects_remove(data, obj)
             IN  IF Truthy(o.data) THEN meshes_remove(d, o.data) ELSE d
        ELSE IF o.type = "CURVE"
        THEN LET d == objects_remove(data, obj)
             IN  IF Truthy(o.data) THEN curves_remove(d, o.data) ELSE d
        ELSE objects_remove(data, obj)

RECURSIVE delete_objects(_, _)
delete_objects(data, objs) ==
    IF Len(objs) = 0 THEN data
    ELSE delete_objects(delete_object(data, Head(objs)), Tail(objs))

\* bpy.data.objects[name]: the handle of the object of that name, or KeyError
Lookup(data, name) ==
    LET hs == {h \in DOMAIN data.objects : data.objects[h].name = name}
    IN  IF hs = {} THEN [raised |-> "KeyError"]
        ELSE [raised |-> "none", ret |-> CHOOSE h \in hs : TRUE]

get_object_by_name(data, name) == Lookup(data, name)

delete_object_by_name_quiet(data, name) ==
    LET r == get_object_by_name(data, name)
    IN  IF r.raised # "none" THEN [raised |-> "none", bpy |-> data]
        ELSE [raised |-> "none", bpy |-> delete_object(data, r.ret)]

delete_object_by_name(data, name) ==
    LET r == get_object_by_name(data, name)
    IN  IF r.raised # "none" THEN [raised |-> r.raised, bpy |-> data]
        ELSE [raised |-> "none", bpy |-> delete_object(data, r.ret)]

\* [bpy.data.objects[name] for name in names]: the first missing name raises
RECURSIVE get_objects_by_names(_, _)
get_objects_by_names(data, names) ==
    IF Len(names) = 0 THEN [raised |-> "none", ret |-> <<>>]
    ELSE LET r == Lookup(data, Head(names))
             rest == get_objects_by_names(data, Tail(names))
         IN  IF r.raised # "none" THEN [raised |-> r.raised]
             ELSE IF rest.raised # "none" THEN rest
             ELSE [raised |-> "none", ret |-> <<r.ret>> \o rest.ret]

delete_objects_by_names(data, names) ==
    LET r == get_objects_by_names(data, names)
    IN  IF r.raised # "none" THEN [raised |-> r.raised, bpy |-> data]
        ELSE [raised |-> "none", bpy |-> delete_objects(data, r.ret)]

\* compas_blender.draw_points / draw_lines: the host creates one object per
\* descriptor, in order, each with a data block of its own, and returns the
\* handles; `first` is the handle of the first object created.
HostDraw(data, descs, first, type) ==
    LET hs == [i \in 1..Len(descs) |-> first + i - 1]
        new == [h \in Range(hs) |->
                   [type |-> type, data |-> Block(h), name |-> descs[h - first + 1].name]]
    IN  [bpy |-> [data EXCEPT
                    !.objects = [h \in DOMAIN data.objects \cup Range(hs) |->
                                    IF h \in Range(hs) THEN new[h] ELSE data.objects[h]],
                    !.meshes = @ \cup (IF type = "MESH" THEN Range(hs) ELSE {}),
                    !.curves = @ \cup (IF type = "CURVE" THEN Range(hs) ELSE {})],
         objects |-> hs]

draw_points(data, points, first) == HostDraw(data, points, first, "MESH")
draw_lines(data, lines, first) == HostDraw(data, lines, first, "CURVE")

-----------------------------------------------------------------------------
(* NetworkArtist (Blender).  The operations are functions of the artist    *)
(* and the scene, s = [bpy, nextId, network, settings, object_node,        *)
(* object_edge, object_path, hostcalls, ret]; hostcalls lists the host     *)
(* drawing calls issued and ret is the value returned.                     *)

DefaultSettings ==
    [k \in {"color.nodes", "color.edges", "show.nodes", "show.edges",
            "show.nodelabels", "show.edgelabels"} |->
        CASE k = "color.nodes" -> White
          [] k = "color.edges" -> Black
          [] k = "show.nodes" -> TRUE
          [] k = "show.edges" -> TRUE
          [] OTHER -> FALSE]

\* NetworkArtist.__init__: the settings after construction with `arg`
InitSettings(arg) == IF Truthy(arg) THEN Update(DefaultSettings, arg.value) ELSE DefaultSettings

\* the keys of a tracking dictionary, in insertion order (handles ascend)
RECURSIVE SortedSeq(_)
SortedSeq(S) ==
    IF S = {} THEN <<>>
    ELSE LET m == CHOOSE x \in S : \A y \in S : x <= y
         IN  <<m>> \o SortedSeq(S \ {m})

Keys(d) == SortedSeq(DOMAIN d)

\* the handles the artist tracks
Tracked(s) == DOMAIN s.object_node \cup DOMAIN s.object_edge \cup DOMAIN s.object_path

clear_keeps_tracking(s) ==
    LET objects == Keys(s.object_node) \o Keys(s.object_edge) \o Keys(s.object_path)
    IN  [s EXCEPT !.bpy = delete_objects(s.bpy, objects), !.ret = None]

clear_nodes_only(s) ==
    [s EXCEPT !.bpy = delete_objects(s.bpy, Keys(s.object_node)),
              !.object_node = EmptyDict,
              !.object_edge = EmptyDict,
              !.object_path = EmptyDict,
              !.ret = None]

clear(s) ==
    LET objects == Keys(s.object_node) \o Keys(s.object_edge) \o Keys(s.object_path)
    IN  [s EXCEPT !.bpy = delete_objects(s.bpy, objects),
                  !.object_node = EmptyDict,
                  !.object_edge = EmptyDict,
                  !.object_path = EmptyDict,
                  !.ret = None]

\* nodes or list(self.network.nodes())
KeysOr(keys, all) == IF Truthy(keys) THEN keys.value ELSE all

NodePoints(s, nodes, color, default) ==
    LET node_color == color_to_colordict(color, nodes, default)
    IN  [i \in 1..Len(nodes) |->
            [pos |-> node_coordinates(nodes[i]),
             name |-> <<s.network.name, "node", Format(nodes[i])>>,
             color |-> node_color[nodes[i]],
             radius |-> "0.05"]]

EdgeLines(s, edges, color, default) ==
    LET edge_color == color_to_colordict(color, edges, default)
    IN  [i \in 1..Len(edges) |->
            [start |-> node_coordinates(edges[i][1]),
             end |-> node_coordinates(edges[i][2]),
             color |-> edge_color[edges[i]],
             name |-> <<s.network.name, "edge", Format(edges[i][1]), Format(edges[i][2])>>,
             width |-> "0.02"]]

draw_nodes_adds_tracking(s, nodesArg, color) ==
    LET nodes == KeysOr(nodesArg, s.network.vertices)
        points == NodePoints(s, nodes, color, s.settings["color.nodes"])
        host == draw_points(s.bpy, points, s.nextId)
    IN  [s EXCEPT !.bpy = host.bpy,
                  !.nextId = @ + Len(points),
                  !.object_node = Update(@, ZipDict(host.objects, nodes)),
                  !.hostcalls = Append(@, [fn |-> "draw_points", descs |-> points,
                                           keys |-> nodes, objects |-> host.objects]),
                  !.ret = List(host.objects)]

draw_nodes(s, nodesArg, color) ==
    LET nodes == KeysOr(nodesArg, s.network.vertices)
        points == NodePoints(s, nodes, color, s.settings["color.nodes"])
        host == draw_points(s.bpy, points, s.nextId)
    IN  [s EXCEPT !.bpy = host.bpy,
                  !.nextId = @ + Len(points),
                  !.object_node = ZipDict(host.objects, nodes),
                  !.hostcalls = Append(@, [fn |-> "draw_points", descs |-> points,
                                           keys |-> nodes, objects |-> host.objects]),
                  !.ret = List(host.objects)]

draw_edges(s, edgesArg, color) ==
    LET edges == KeysOr(edgesArg, s.network.edges)
        lines == EdgeLines(s, edges, color, s.settings["color.edges"])
        host == draw_lines(s.bpy, lines, s.nextId)
    IN  [s EXCEPT !.bpy = host.bpy,
                  !.nextId = @ + Len(lines),
                  !.object_edge = ZipDict(host.objects, edges),
                  !.hostcalls = Append(@, [fn |-> "draw_lines", descs |-> lines,
                                           keys |-> edges, objects |-> host.objects]),
                  !.ret = List(host.objects)]

\* self.objects, the attribute of the base artist that draw returns: the
\* NetworkArtist never assigns it, neither in draw nor in draw_nodes or
\* draw_edges, so that it is the list the base constructor made, still empty
self_objects == List(<<>>)

draw_replaces_settings(s, arg) ==
    LET s1 == clear(s)
        given == IF ~Truthy(arg) THEN EmptyDict ELSE arg.value
        s2 == [s1 EXCEPT !.settings = Update(DefaultSettings, given)]
        s3 == IF s2.settings["show.nodes"] THEN draw_nodes(s2, None, None) ELSE s2
        s4 == IF s3.settings["show.edges"] THEN draw_edges(s3, None, None) ELSE s3
    IN  [s4 EXCEPT !.ret = self_objects]

draw_without_clear(s, arg) ==
    LET given == IF ~Truthy(arg) THEN EmptyDict ELSE arg.value
        s2 == [s EXCEPT !.settings = Update(@, given)]
        s3 == IF s2.settings["show.nodes"] THEN draw_nodes(s2, None, None) ELSE s2
        s4 == IF s3.settings["show.edges"] THEN draw_edges(s3, None, None) ELSE s3
    IN  [s4 EXCEPT !.ret = self_objects]

draw(s, arg) ==
    LET s1 == clear(s)
        given == IF ~Truthy(arg) THEN EmptyDict ELSE arg.value
        s2 == [s1 EXCEPT !.settings = Update(@, given)]
        s3 == IF s2.settings["show.nodes"] THEN draw_nodes(s2, None, None) ELSE s2
        s4 == IF s3.settings["show.edges"] THEN draw_edges(s3, None, None) ELSE s3
    IN  [s4 EXCEPT !.ret = self_objects]

-----------------------------------------------------------------------------
(* Arguments the calls are tried with *)

\* None, or a settings dict that sets some of 'show.nodes' and 'show.edges'
SettingsArgs == {None} \cup {Dict(f) : f \in DictsOver({"show.nodes", "show.edges"}, BOOLEAN)}

\* None, or a list of at most MaxLen of the keys `all`
KeyArgs(all) == {None} \cup {List(q) : q \in SeqsUpTo(Range(all), MaxLen)}

\* None, one colour, or a dict giving no key, the first key or every key of
\* `all` a colour
ColorArgs(all) ==
    {None, Rgb(Red)}
    \cup {Dict([k \in D |-> Red]) : D \in {{}, Range(all)} \cup {{all[i]} : i \in DOMAIN all \cap {1}}}

-----------------------------------------------------------------------------
(* The NetworkArtist in a scene that only the artist modifies *)

Idle == [op |-> "idle"]

St ==
    [bpy |-> bpy, nextId |-> nextId, network |-> network, settings |-> settings,
     object_node |-> object_node, object_edge |-> object_edge, object_path |-> object_path,
     hostcalls |-> <<>>, ret |-> None]

\* the handles the host returned in the calls of `hostcalls`
Returned(hostcalls) == UNION {Range(hostcalls[i].objects) : i \in DOMAIN hostcalls}

Commit(op, args, t) ==
    /\ live = "NetworkArtist"
    /\ call.op = "idle"
    /\ LET r == t
       IN  /\ r.nextId <= MaxId + 1
           /\ bpy' = r.bpy
           /\ nextId' = r.nextId
           /\ settings' = r.settings
           /\ object_node' = r.object_node
           /\ object_edge' = r.object_edge
           /\ object_path' = r.object_path
           /\ created' = created \cup Returned(r.hostcalls)
           /\ call' = [op |-> op, args |-> args, pre |-> St, hostcalls |-> r.hostcalls,
                       ret |-> r.ret, raised |-> "none"]
    /\ UNCHANGED <<live, network, meshvars>>

MeshDefaultSettings ==
    [k \in {"color.vertices", "color.edges", "color.faces", "show.vertices", "show.edges",
            "show.faces", "show.vertexlabels", "show.facelabels", "show.edgelabels",
            "join_faces"} |->
        CASE k = "color.vertices" -> White
          [] k = "color.edges" -> Black
          [] k = "color.faces" -> Grey
          [] k \in {"show.vertices", "show.edges", "show.faces", "join_faces"} -> TRUE
          [] OTHER -> FALSE]

\* a scene with two objects that no drawing call of the artist created
ForeignScene ==
    [objects |-> [h \in {1, 2} |->
                    IF h = 1 THEN [type |-> "MESH", data |-> Block(1), name |-> "Cube"]
                    ELSE [type |-> "CURVE", data |-> Block(2), name |-> "Path"]],
     meshes |-> {1}, curves |-> {2}, lights |-> {}]

NoMeshArtist ==
    /\ mesh = Datastructure("Mesh", 0)
    /\ msettings = MeshDefaultSettings
    /\ mcall = Idle

NoNetworkArtist ==
    /\ network = Datastructure("Network", 0)
    /\ settings = DefaultSettings
    /\ object_node = EmptyDict
    /\ object_edge = EmptyDict
    /\ object_path = EmptyDict
    /\ created = {}

Init ==
    /\ live = "NetworkArtist"
    /\ bpy = ForeignScene
    /\ nextId = 3
    /\ network \in Networks
    /\ \E arg \in SettingsArgs :
          /\ settings = InitSettings(arg)
          /\ call = [op |-> "__init__", args |-> <<arg>>, hostcalls |-> <<>>,
                     ret |-> None, raised |-> "none"]
    /\ object_node = EmptyDict
    /\ object_edge = EmptyDict
    /\ object_path = EmptyDict
    /\ created = {}
    /\ NoMeshArtist

CallClear == call.op = "idle" /\ Commit("clear", <<>>, clear(St))

CallDraw == call.op = "idle" /\ \E arg \in SettingsArgs : Commit("draw", <<arg>>, draw(St, arg))

CallDrawNodes ==
    /\ call.op = "idle"
    /\ \E nodes \in KeyArgs(network.vertices) :
          /\ nextId + Len(KeysOr(nodes, network.vertices)) <= MaxId + 1
          /\ \E color \in ColorArgs(network.vertices) :
                Commit("draw_nodes", <<nodes, color>>, draw_nodes(St, nodes, color))

CallDrawEdges ==
    /\ call.op = "idle"
    /\ \E edges \in KeyArgs(network.edges) :
          /\ nextId + Len(KeysOr(edges, network.edges)) <= MaxId + 1
          /\ \E color \in ColorArgs(network.edges) :
                Commit("draw_edges", <<edges, color>>, draw_edges(St, edges, color))

\* object_path.setter, given nothing or the handle of the curve of the scene
\* that is not the artist's, while that curve exists
SetObjectPath ==
    /\ call.op = "idle"
    /\ \E values \in DictsOver(DOMAIN bpy.objects \cap {2}, {"path"}) :
          Commit("object_path", <<Dict(values)>>, [St EXCEPT !.object_path = values])

Return ==
    /\ call.op # "idle"
    /\ call' = Idle
    /\ UNCHANGED <<live, bpy, nextId, netvars, meshvars>>

Next ==
    \/ CallClear
    \/ CallDraw
    \/ CallDrawNodes
    \/ CallDrawEdges
    \/ SetObjectPath
    \/ Return

Spec == Init /\ [][Next]_vars

\* the artist used through draw and clear alone
NextDraw ==
    \/ CallClear
    \/ CallDraw
    \/ Return

SpecDraw == Init /\ [][NextDraw]_vars

-----------------------------------------------------------------------------
(* delete_all_objects: three loops, each over a collection of bpy.data that *)
(* its body removes from.  The iterator of a host collection steps to the   *)
(* next element before it hands out the current one, so that removing the   *)
(* current element leaves the rest of the loop as it was.                   *)

\* for obj in bpy.data.objects: bpy.data.objects.remove(obj)
RECURSIVE remove_objects(_, _)
remove_objects(data, objs) ==
    IF Len(objs) = 0 THEN data
    ELSE remove_objects(objects_remove(data, Head(objs)), Tail(objs))

\* for mesh in bpy.data.meshes: bpy.data.meshes.remove(mesh)
RECURSIVE remove_meshes(_, _)
remove_meshes(data, ids) ==
    IF Len(ids) = 0 THEN data
    ELSE remove_meshes(meshes_remove(data, Block(Head(ids))), Tail(ids))

\* for curve in bpy.data.curves: bpy.data.curves.remove(curve)
RECURSIVE remove_curves(_, _)
remove_curves(data, ids) ==
    IF Len(ids) = 0 THEN data
    ELSE remove_curves(curves_remove(data, Block(Head(ids))), Tail(ids))

delete_all_objects_attached_data(data) ==
    LET used == {data.objects[h].data.id : h \in {x \in DOMAIN data.objects : Truthy(data.objects[x].data)}}
        d1 == remove_objects(data, SortedSeq(DOMAIN data.objects))
        d2 == remove_meshes(d1, SortedSeq(d1.meshes \cap used))
    IN  remove_curves(d2, SortedSeq(d2.curves \cap used))

delete_all_objects(data) ==
    LET d1 == remove_objects(data, SortedSeq(DOMAIN data.objects))
        d2 == remove_meshes(d1, SortedSeq(d1.meshes))
    IN  remove_curves(d2, SortedSeq(d2.curves))

-----------------------------------------------------------------------------
(* The object utilities on a scene of any kind *)

\* what an object of the scene can be: its type, and whether it has a data
\* block (the utilities test for one)
Kinds ==
    {[type |-> "MESH", data |-> TRUE], [type |-> "MESH", data |-> FALSE],
     [type |-> "CURVE", data |-> TRUE], [type |-> "CURVE", data |-> FALSE],
     [type |-> "LIGHT", data |-> TRUE], [type |-> "EMPTY", data |-> FALSE]}

ObjName(h) == <<"Object", h>>

\* the scene with one object per entry of `kinds`; object h has block h
Scene(kinds) ==
    [objects |-> [h \in DOMAIN kinds |->
                    [type |-> kinds[h].type,
                     data |-> IF kinds[h].data THEN Block(h) ELSE None,
                     name |-> ObjName(h)]],
     meshes |-> {h \in DOMAIN kinds : kinds[h] = [type |-> "MESH", data |-> TRUE]},
     curves |-> {h \in DOMAIN kinds : kinds[h] = [type |-> "CURVE", data |-> TRUE]},
     lights |-> {h \in DOMAIN kinds : kinds[h] = [type |-> "LIGHT", data |-> TRUE]}]

\* the scenes: some objects, and possibly a mesh and a curve data block that
\* no object uses
Scenes ==
    {[Scene(kinds) EXCEPT !.meshes = @ \cup M, !.curves = @ \cup C] :
        kinds \in UNION {[1..n -> Kinds] : n \in 0..MaxObjs},
        M \in SUBSET {MaxObjs + 1}, C \in SUBSET {MaxObjs + 2}}

\* the names looked up: those of the initial objects and one no object has
NameArgs == {ObjName(h) : h \in 1..(MaxObjs + 1)}

InitObjects ==
    /\ live = "objects"
    /\ bpy \in Scenes
    /\ nextId = Cardinality(DOMAIN bpy.objects) + 1
    /\ call = Idle
    /\ NoNetworkArtist
    /\ NoMeshArtist

Done(op, args, raised, ret, data) ==
    /\ live = "objects"
    /\ call.op = "idle"
    /\ bpy' = data
    /\ call' = [op |-> op, args |-> args, pre |-> [bpy |-> bpy], raised |-> raised, ret |-> ret]
    /\ UNCHANGED <<live, nextId, netvars, meshvars>>

CallDeleteAllObjects ==
    Done("delete_all_objects", <<>>, "none", None, delete_all_objects(bpy))

CallDeleteObject ==
    \E obj \in DOMAIN bpy.objects :
        Done("delete_object", <<obj>>, "none", None, delete_object(bpy, obj))

CallDeleteObjects ==
    \E objs \in SeqsUpTo(DOMAIN bpy.objects, MaxLen) :
        Done("delete_objects", <<objs>>, "none", None, delete_objects(bpy, objs))

CallDeleteObjectByName ==
    \E name \in NameArgs :
        LET r == delete_object_by_name(bpy, name)
        IN  Done("delete_object_by_name", <<name>>, r.raised, None, r.bpy)

CallDeleteObjectsByNames ==
    \E names \in SeqsUpTo(NameArgs, MaxLen) :
        LET r == delete_objects_by_names(bpy, names)
        IN  Done("delete_objects_by_names", <<names>>, r.raised, None, r.bpy)

CallGetObjectByName ==
    \E name \in NameArgs :
        LET r == get_object_by_name(bpy, name)
        IN  Done("get_object_by_name", <<name>>, r.raised,
                 IF r.raised = "none" THEN List(<<r.ret>>) ELSE None, bpy)

CallGetObjectsByNames ==
    \E names \in SeqsUpTo(NameArgs, MaxLen) :
        LET r == get_objects_by_names(bpy, names)
        IN  Done("get_objects_by_names", <<names>>, r.raised,
                 IF r.raised = "none" THEN List(r.ret) ELSE None, bpy)

NextObjects ==
    \/ CallDeleteAllObjects
    \/ CallDeleteObject
    \/ CallDeleteObjects
    \/ CallDeleteObjectByName
    \/ CallDeleteObjectsByNames
    \/ CallGetObjectByName
    \/ CallGetObjectsByNames
    \/ Return

SpecObjects == InitObjects /\ [][NextObjects]_vars

-----------------------------------------------------------------------------
(* MeshArtist (GhPython).  The operations are functions of the artist,     *)
(* a = [mesh, settings], and give [raised, ret, hostcalls]: the exception  *)
(* raised if any, the value returned, and the host drawing calls issued.   *)

\* compas_ghpython.draw_points / draw_lines / draw_faces / draw_labels: the
\* host builds one geometry per descriptor, in order
Geometry(kind, descs) == [i \in DOMAIN descs |-> [kind |-> kind, of |-> descs[i]]]

gh_draw_points(points) == Geometry("Point3d", points)
gh_draw_lines(lines) == Geometry("Line", lines)
gh_draw_faces(faces) == Geometry("Mesh", faces)
gh_draw_labels(labels) == Geometry("TextDot", labels)

Returns(ret, fn, descs, keys) ==
    [raised |-> "none", ret |-> ret,
     hostcalls |-> <<[fn |-> fn, descs |-> descs, keys |-> keys]>>]

Raises(exception) == [raised |-> exception, ret |-> None, hostcalls |-> <<>>]

VertexPoints(a, vertices, color, default) ==
    LET colordict == color_to_colordict(color, vertices, default)
    IN  [i \in 1..Len(vertices) |->
            [pos |-> vertex_coordinates(vertices[i]),
             name |-> <<a.mesh.name, "vertex", Format(vertices[i])>>,
             color |-> colordict[vertices[i]]]]

mesh_draw_vertices(a, keys, color) ==
    LET vertices == KeysOr(keys, a.mesh.vertices)
        points == VertexPoints(a, vertices, color, a.settings["color.vertices"])
    IN  Returns(List(gh_draw_points(points)), "draw_points", points, vertices)

FaceDescs(a, keys, color, default) ==
    LET colordict == color_to_colordict(color, keys, default)
    IN  [i \in 1..Len(keys) |->
            [points |-> face_coordinates(keys[i]),
             name |-> <<a.mesh.name, "face", Format(keys[i])>>,
             color |-> colordict[keys[i]]]]

mesh_draw_faces(a, keysArg, color, join_faces) ==
    LET keys == KeysOr(keysArg, a.mesh.faces)
        faces == FaceDescs(a, keys, color, a.settings["color.faces"])
        meshes == gh_draw_faces(faces)
    IN  IF ~join_faces THEN Returns(List(meshes), "draw_faces", faces, keys)
        ELSE Returns(List(<<[kind |-> "Mesh", of |-> [joined |-> meshes]]>>),
                     "draw_faces", faces, keys)

MeshEdgeLines(a, edges, color, default) ==
    LET colordict == color_to_colordict(color, edges, default)
    IN  [i \in 1..Len(edges) |->
            [start |-> edge_coordinates(edges[i][1], edges[i][2])[1],
             end |-> edge_coordinates(edges[i][1], edges[i][2])[2],
             color |-> colordict[edges[i]],
             name |-> <<a.mesh.name, "edge", Format(edges[i][1]), Format(edges[i][2])>>]]

mesh_draw_edges_face_color(a, keys, color) ==
    LET edges == KeysOr(keys, a.mesh.edges)
        lines == MeshEdgeLines(a, edges, color, a.settings["color.faces"])
    IN  Returns(List(gh_draw_lines(lines)), "draw_lines", lines, edges)

mesh_draw_edges(a, keys, color) ==
    LET edges == KeysOr(keys, a.mesh.edges)
        lines == MeshEdgeLines(a, edges, color, a.settings["color.edges"])
    IN  Returns(List(gh_draw_lines(lines)), "draw_lines", lines, edges)

\* the keys of `all` that are keys of the dict d, in the order of `all`
KeysIn(all, d) == SelectSeq(all, LAMBDA k : k \in DOMAIN d)

\* the label descriptors of textdict; kind is "vertexlabel", "facelabel" or
\* "edgelabel"
Labels(a, kind, all, textdict, color, default) ==
    LET keys == KeysIn(all, textdict)
        colordict == color_to_colordict(color, keys, default)
    IN  [i \in 1..Len(keys) |->
            [pos |-> CASE kind = "vertexlabel" -> vertex_coordinates(keys[i])
                       [] kind = "facelabel" -> face_center(keys[i])
                       [] OTHER -> edge_midpoint(keys[i][1], keys[i][2]),
             name |-> IF kind = "edgelabel"
                      THEN <<a.mesh.name, kind, Format(keys[i][1]), Format(keys[i][2])>>
                      ELSE <<a.mesh.name, kind, Format(keys[i])>>,
             color |-> colordict[keys[i]],
             text |-> textdict[keys[i]]]]

draw_vertexlabels_any_text(a, text, color) ==
    LET all == a.mesh.vertices
        textdict == IF text.tag = "dict" THEN text.value ELSE [k \in Range(all) |-> Format(k)]
        labels == Labels(a, "vertexlabel", all, textdict, color, a.settings["color.vertices"])
    IN  Returns(List(gh_draw_labels(labels)), "draw_labels", labels, KeysIn(all, textdict))

draw_vertexlabels(a, text, color) ==
    LET all == a.mesh.vertices
    IN  IF text.tag # "None" /\ text.tag # "dict" THEN Raises("NotImplementedError")
        ELSE LET textdict == IF text.tag = "None" THEN [k \in Range(all) |-> Format(k)]
                             ELSE text.value
                 labels == Labels(a, "vertexlabel", all, textdict, color,
                                  a.settings["color.vertices"])
             IN  Returns(List(gh_draw_labels(labels)), "draw_labels", labels,
                         KeysIn(all, textdict))

draw_facelabels(a, text, color) ==
    LET all == a.mesh.faces
    IN  IF text.tag # "None" /\ text.tag # "dict" THEN Raises("NotImplementedError")
        ELSE LET textdict == IF text.tag = "None" THEN [k \in Range(all) |-> Format(k)]
                             ELSE text.value
                 labels == Labels(a, "facelabel", all, textdict, color,
                                  a.settings["color.faces"])
             IN  Returns(List(gh_draw_labels(labels)), "draw_labels", labels,
                         KeysIn(all, textdict))

draw_edgelabels(a, text, color) ==
    LET all == a.mesh.edges
    IN  IF text.tag # "None" /\ text.tag # "dict" THEN Raises("NotImplementedError")
        ELSE LET textdict == IF text.tag = "None"
                             THEN [k \in Range(all) |-> <<Format(k[1]), "-", Format(k[2])>>]
                             ELSE text.value
                 labels == Labels(a, "edgelabel", all, textdict, color,
                                  a.settings["color.edges"])
             IN  Returns(List(gh_draw_labels(labels)), "draw_labels", labels,
                         KeysIn(all, textdict))


\* the faces, the face labels, the edges and the edge labels of draw, each
\* label drawn inside the branch of its geometry
DrawRest(a) ==
    LET faces == mesh_draw_faces(a, None, None, a.settings["join_faces"])
        facelabels == draw_facelabels(a, None, None)
        edges == mesh_draw_edges(a, None, None)
        edgelabels == draw_edgelabels(a, None, None)
        f == a.settings["show.faces"]
        fl == f /\ a.settings["show.facelabels"]
        e == a.settings["show.edges"]
        el == e /\ a.settings["show.edgelabels"]
    IN  [raised |-> "none",
         ret |-> List(<<None, None,
                        IF f THEN faces.ret ELSE None,
                        IF fl THEN facelabels.ret ELSE None,
                        IF e THEN edges.ret ELSE None,
                        IF el THEN edgelabels.ret ELSE None>>),
         hostcalls |-> (IF f THEN faces.hostcalls ELSE <<>>)
                       \o (IF fl THEN facelabels.hostcalls ELSE <<>>)
                       \o (IF e THEN edges.hostcalls ELSE <<>>)
                       \o (IF el THEN edgelabels.hostcalls ELSE <<>>)]

\* MeshArtist.draw: with 'show.vertices' set it calls self.draw_nodes(), which
\* MeshArtist does not define
mesh_draw(a) ==
    IF a.settings["show.vertices"] THEN Raises("AttributeError")
    ELSE DrawRest(a)

-----------------------------------------------------------------------------
(* The MeshArtist on a mesh of any size *)

\* None, a string, an empty list, or a dict giving no key, the first key or
\* every key of `all` a text
TextArgs(all) ==
    {None, Str("label"), List(<<>>)}
    \cup {Dict([k \in D |-> "text"]) : D \in {{}, Range(all)} \cup {{all[i]} : i \in DOMAIN all \cap {1}}}

A == [mesh |-> mesh, settings |-> msettings]

InitMesh ==
    /\ live = "MeshArtist"
    /\ mesh \in Meshes
    /\ msettings = MeshDefaultSettings
    /\ mcall = Idle
    /\ bpy = Scene(<<>>)
    /\ nextId = 1
    /\ call = Idle
    /\ NoNetworkArtist

MeshDone(op, args, r) ==
    /\ live = "MeshArtist"
    /\ mcall.op = "idle"
    /\ mcall' = [op |-> op, args |-> args, raised |-> r.raised, ret |-> r.ret,
                 hostcalls |-> r.hostcalls]
    /\ UNCHANGED <<live, bpy, nextId, netvars, call, mesh, msettings>>

\* artist.settings[key] = value, for a show flag or 'join_faces'
SetSetting ==
    /\ live = "MeshArtist"
    /\ mcall.op = "idle"
    /\ \E k \in {"show.vertices", "show.edges", "show.faces", "show.vertexlabels",
                 "show.facelabels", "show.edgelabels", "join_faces"} :
          msettings' = [msettings EXCEPT ![k] = ~@]
    /\ UNCHANGED <<live, bpy, nextId, netvars, call, mesh, mcall>>

CallMeshDraw == MeshDone("draw", <<>>, mesh_draw(A))

CallMeshDrawVertices ==
    \E keys \in KeyArgs(mesh.vertices), color \in ColorArgs(mesh.vertices) :
        MeshDone("draw_vertices", <<keys, color>>, mesh_draw_vertices(A, keys, color))

CallMeshDrawFaces ==
    \E keys \in KeyArgs(mesh.faces), color \in ColorArgs(mesh.faces), join_faces \in BOOLEAN :
        MeshDone("draw_faces", <<keys, color, join_faces>>,
                 mesh_draw_faces(A, keys, color, join_faces))

CallMeshDrawEdges ==
    \E keys \in KeyArgs(mesh.edges), color \in ColorArgs(mesh.edges) :
        MeshDone("draw_edges", <<keys, color>>, mesh_draw_edges(A, keys, color))

CallDrawVertexlabels ==
    \E text \in TextArgs(mesh.vertices), color \in ColorArgs(mesh.vertices) :
        MeshDone("draw_vertexlabels", <<text, color>>, draw_vertexlabels(A, text, color))

CallDrawFacelabels ==
    \E text \in TextArgs(mesh.faces), color \in ColorArgs(mesh.faces) :
        MeshDone("draw_facelabels", <<text, color>>, draw_facelabels(A, text, color))

CallDrawEdgelabels ==
    \E text \in TextArgs(mesh.edges), color \in ColorArgs(mesh.edges) :
        MeshDone("draw_edgelabels", <<text, color>>, draw_edgelabels(A, text, color))

MeshReturn ==
    /\ mcall.op # "idle"
    /\ mcall' = Idle
    /\ UNCHANGED <<live, bpy, nextId, netvars, call, mesh, msettings>>

NextMesh ==
    \/ SetSetting
    \/ CallMeshDraw
    \/ CallMeshDrawVertices
    \/ CallMeshDrawFaces
    \/ CallMeshDrawEdges
    \/ CallDrawVertexlabels
    \/ CallDrawFacelabels
    \/ CallDrawEdgelabels
    \/ MeshReturn

SpecMesh == InitMesh /\ [][NextMesh]_vars


\* a script that uses one of the two artists
InitArtists == Init \/ InitMesh

NextArtists ==
    \/ Next
    \/ NextMesh

SpecArtists == InitArtists /\ [][NextArtists]_vars

-----------------------------------------------------------------------------
(* Properties of the NetworkArtist *)

\* the settings dict a call was given ({} for None)
Passed(arg) == IF arg.tag = "dict" THEN arg.value ELSE EmptyDict

\* the host calls of the finished call that went to `fn`
HostCalls(fn) == {i \in DOMAIN call.hostcalls : call.hostcalls[i].fn = fn}

\* the objects of the scene that a drawing call of the artist created
PresentCreated == created \cap DOMAIN bpy.objects

\* C1: whatever draw, draw_nodes, draw_edges and clear calls were made, every
\* handle that is a key of the node, edge or path tracking dictionary is an
\* object of the scene.
C1_TrackedArePresent ==
    DOMAIN object_node \cup DOMAIN object_edge \cup DOMAIN object_path \subseteq DOMAIN bpy.objects

\* a clear has deleted tracked nodes while objects of an earlier draw_nodes,
\* no longer tracked, are still in the scene
C1_Witness ==
    /\ call.op = "clear"
    /\ DOMAIN call.pre.object_node # {}
    /\ PresentCreated # {}

\* C2: after a draw that follows only draw and clear calls, the objects of the
\* scene that the artist created are exactly the ones this draw created: one
\* per node of the network if 'show.nodes' is true and none otherwise, one per
\* edge if 'show.edges' is true and none otherwise; no object of an earlier
\* draw is left.
C2_SceneIsLastDraw ==
    call.op = "draw" =>
        LET hc == call.hostcalls
            pts == HostCalls("draw_points")
            lns == HostCalls("draw_lines")
            nodeobjs == UNION {Range(hc[i].objects) : i \in pts}
            edgeobjs == UNION {Range(hc[i].objects) : i \in lns}
        IN  /\ PresentCreated = nodeobjs \cup edgeobjs
            /\ nodeobjs \cap edgeobjs = {}
            /\ Cardinality(nodeobjs) = (IF settings["show.nodes"] THEN Len(network.vertices) ELSE 0)
            /\ Cardinality(edgeobjs) = (IF settings["show.edges"] THEN Len(network.edges) ELSE 0)
            /\ \A i \in pts : hc[i].keys = network.vertices
            /\ \A i \in lns : hc[i].keys = network.edges
            /\ (created \ Returned(hc)) \cap DOMAIN bpy.objects = {}

\* a draw that found the objects of an earlier draw in the scene and drew
\* nodes again
C2_Witness ==
    /\ call.op = "draw"
    /\ DOMAIN call.pre.object_node # {}
    /\ DOMAIN object_node # {}

\* C3: clear deletes every object that is a key of a tracking dictionary,
\* empties the three dictionaries and leaves every other object of the scene
\* as it was.
C3_ClearDeletesTracked ==
    call.op = "clear" =>
        LET before == call.pre.bpy.objects
        IN  /\ DOMAIN bpy.objects = DOMAIN before \ Tracked(call.pre)
            /\ \A h \in DOMAIN bpy.objects : bpy.objects[h] = before[h]
            /\ object_node = EmptyDict
            /\ object_edge = EmptyDict
            /\ object_path = EmptyDict

\* a clear that deleted tracked nodes, edges and a tracked path object and
\* left an untracked object behind
C3_Witness ==
    /\ call.op = "clear"
    /\ DOMAIN call.pre.object_node # {}
    /\ DOMAIN call.pre.object_edge # {}
    /\ DOMAIN call.pre.object_path # {}
    /\ DOMAIN bpy.objects # {}

\* the settings after a call given `arg`, when they were `before`: the keys
\* passed have the passed value, the others the value they had
Merged(before, arg, after) ==
    /\ DOMAIN after = DOMAIN before \cup DOMAIN Passed(arg)
    /\ \A k \in DOMAIN after :
          after[k] = (IF k \in DOMAIN Passed(arg) THEN Passed(arg)[k] ELSE before[k])

\* C4: the constructor and draw merge the settings they are given into the
\* settings of the artist, and draw draws the nodes and the edges according to
\* the merged 'show.nodes' and 'show.edges'.
C4_SettingsMerged ==
    /\ call.op = "__init__" => Merged(DefaultSettings, call.args[1], settings)
    /\ call.op = "draw" =>
          /\ Merged(call.pre.settings, call.args[1], settings)
          /\ (HostCalls("draw_points") # {}) = settings["show.nodes"]
          /\ (HostCalls("draw_lines") # {}) = settings["show.edges"]

\* a draw given only 'show.nodes', with a new value, by an artist whose
\* 'show.edges' was no longer the default
C4_Witness ==
    /\ call.op = "draw"
    /\ DOMAIN Passed(call.args[1]) = {"show.nodes"}
    /\ Passed(call.args[1])["show.nodes"] # call.pre.settings["show.nodes"]
    /\ call.pre.settings["show.edges"] = FALSE

\* C11: draw returns the list of the objects that call created: the handles
\* the host returned for the nodes and the edges it drew, which are the keys
\* of the node and edge tracking dictionaries after the call.
C11_DrawReturnsCreated ==
    call.op = "draw" =>
        /\ call.ret.tag = "list"
        /\ Range(call.ret.value) = Returned(call.hostcalls)
        /\ Range(call.ret.value) = DOMAIN object_node \cup DOMAIN object_edge
        /\ Len(call.ret.value) = Cardinality(Returned(call.hostcalls))

\* the tracking dictionary `d` has one entry per handle the host call
\* returned and maps the i-th handle to the key `keys[i]`
Zipped(d, hc, keys) ==
    /\ Len(hc.objects) = Len(keys)
    /\ DOMAIN d = Range(hc.objects)
    /\ Cardinality(DOMAIN d) = Len(hc.objects)
    /\ \A i \in DOMAIN hc.objects : d[hc.objects[i]] = keys[i]

\* the keys drawn by a host call of the NetworkArtist, read from the names of
\* its descriptors
NamedKeys(hc) ==
    [i \in DOMAIN hc.descs |->
        IF Len(hc.descs[i].name) = 4
        THEN <<hc.descs[i].name[3][2], hc.descs[i].name[4][2]>>
        ELSE hc.descs[i].name[3][2]]

\* C13: after draw_nodes (draw_edges) the node (edge) tracking dictionary has
\* exactly one entry per handle the host returned, the i-th handle mapped to
\* the i-th drawn node (edge) key, and no entry of an earlier call; the other
\* tracking dictionaries are as they were.
C13_TrackingZipsHandles ==
    /\ call.op = "draw_nodes" =>
          /\ Len(call.hostcalls) = 1
          /\ Zipped(object_node, call.hostcalls[1], NamedKeys(call.hostcalls[1]))
          /\ DOMAIN object_node \cap DOMAIN call.pre.object_node = {}
          /\ object_edge = call.pre.object_edge
          /\ object_path = call.pre.object_path
    /\ call.op = "draw_edges" =>
          /\ Len(call.hostcalls) = 1
          /\ Zipped(object_edge, call.hostcalls[1], NamedKeys(call.hostcalls[1]))
          /\ DOMAIN object_edge \cap DOMAIN call.pre.object_edge = {}
          /\ object_node = call.pre.object_node
          /\ object_path = call.pre.object_path

\* a draw_nodes that drew node 1 and then node 0 while the artist tracked a
\* node of an earlier draw_nodes
C13_Witness ==
    /\ call.op = "draw_nodes"
    /\ DOMAIN call.pre.object_node # {}
    /\ call.args[1] = List(<<1, 0>>)
    /\ Cardinality(DOMAIN object_node) = 2

-----------------------------------------------------------------------------
(* Properties of the drawing calls of both artists *)

\* the key a descriptor was built for, read back from its name
DescKey(d) ==
    IF Len(d.name) = 4 THEN <<d.name[3][2], d.name[4][2]>> ELSE d.name[3][2]

\* the keys of the descriptors of a host call, in order
DrawnKeys(hc) == [i \in DOMAIN hc.descs |-> DescKey(hc.descs[i])]

\* every descriptor of the host call has the colour the argument `color`
\* gives its key, over the default
ColorsResolved(hc, color, default) ==
    \A i \in DOMAIN hc.descs :
        LET k == DescKey(hc.descs[i])
        IN  hc.descs[i].color =
                (CASE color.tag = "dict" ->
                        IF k \in DOMAIN color.value THEN color.value[k] ELSE default
                   [] color.tag = "None" -> default
                   [] OTHER -> color.value)

\* C5: draw_vertices, draw_edges and draw_faces of the MeshArtist and
\* draw_nodes and draw_edges of the NetworkArtist give every drawn key the
\* colour of the dict passed if the key is in it, the single colour passed if
\* one was, and otherwise the settings default of the kind of key.
C5_ColorsDefaultWithOverrides ==
    /\ call.op = "draw_nodes" =>
          ColorsResolved(call.hostcalls[1], call.args[2], call.pre.settings["color.nodes"])
    /\ call.op = "draw_edges" =>
          ColorsResolved(call.hostcalls[1], call.args[2], call.pre.settings["color.edges"])
    /\ mcall.op = "draw_vertices" =>
          ColorsResolved(mcall.hostcalls[1], mcall.args[2], msettings["color.vertices"])
    /\ mcall.op = "draw_edges" =>
          ColorsResolved(mcall.hostcalls[1], mcall.args[2], msettings["color.edges"])
    /\ mcall.op = "draw_faces" =>
          ColorsResolved(mcall.hostcalls[1], mcall.args[2], msettings["color.faces"])

\* a draw_edges of the MeshArtist given a colour dict that has one of the
\* drawn edges and lacks another
C5_Witness ==
    /\ mcall.op = "draw_edges"
    /\ mcall.args[2].tag = "dict"
    /\ \E i, j \in DOMAIN mcall.hostcalls[1].descs :
          /\ DescKey(mcall.hostcalls[1].descs[i]) \in DOMAIN mcall.args[2].value
          /\ DescKey(mcall.hostcalls[1].descs[j]) \notin DOMAIN mcall.args[2].value

\* the keys of the mesh a label call labels by default, and the default text
LabelAll(op) ==
    CASE op = "draw_vertexlabels" -> mesh.vertices
      [] op = "draw_facelabels" -> mesh.faces
      [] OTHER -> mesh.edges

KeyText(op, k) ==
    IF op = "draw_edgelabels" THEN <<Format(k[1]), "-", Format(k[2])>> ELSE Format(k)

\* the host call labels exactly the keys K, each once, key k with text[k]
Labelled(hc, K, text) ==
    /\ Range(DrawnKeys(hc)) = K
    /\ Len(hc.descs) = Cardinality(K)
    /\ \A i \in DOMAIN hc.descs : hc.descs[i].text = text[DescKey(hc.descs[i])]

\* C6: draw_vertexlabels, draw_facelabels and draw_edgelabels raise
\* NotImplementedError for a text that is neither None nor a dict, and then
\* issue no host call; for None they label every vertex, face or edge with its
\* key; for a dict they label exactly the keys of the dict.
C6_LabelText ==
    mcall.op \in {"draw_vertexlabels", "draw_facelabels", "draw_edgelabels"} =>
        LET text == mcall.args[1]
        IN  CASE text.tag = "None" ->
                    /\ mcall.raised = "none"
                    /\ Len(mcall.hostcalls) = 1
                    /\ Labelled(mcall.hostcalls[1], Range(LabelAll(mcall.op)),
                                [k \in Range(LabelAll(mcall.op)) |-> KeyText(mcall.op, k)])
              [] text.tag = "dict" ->
                    /\ mcall.raised = "none"
                    /\ Len(mcall.hostcalls) = 1
                    /\ Labelled(mcall.hostcalls[1], DOMAIN text.value, text.value)
              [] OTHER ->
                    /\ mcall.raised = "NotImplementedError"
                    /\ mcall.hostcalls = <<>>

\* a draw_vertexlabels given an empty list as text, on a mesh with vertices
C6_Witness ==
    /\ mcall.op = "draw_vertexlabels"
    /\ mcall.args[1].tag = "list"
    /\ mcall.raised = "NotImplementedError"
    /\ Len(mesh.vertices) > 0

\* C9: draw of the MeshArtist returns six entries (points, vertex labels, face
\* meshes, face labels, lines, edge labels); an entry is None exactly when its
\* own show flag is false, and is the geometry of its kind otherwise.
C9_DrawReturnsSixByFlag ==
    mcall.op = "draw" =>
        LET want == <<[flag |-> "show.vertices", r |-> mesh_draw_vertices(A, None, None)],
                      [flag |-> "show.vertexlabels", r |-> draw_vertexlabels(A, None, None)],
                      [flag |-> "show.faces",
                       r |-> mesh_draw_faces(A, None, None, msettings["join_faces"])],
                      [flag |-> "show.facelabels", r |-> draw_facelabels(A, None, None)],
                      [flag |-> "show.edges", r |-> mesh_draw_edges(A, None, None)],
                      [flag |-> "show.edgelabels", r |-> draw_edgelabels(A, None, None)]>>
        IN  /\ mcall.raised = "none"
            /\ mcall.ret.tag = "list"
            /\ Len(mcall.ret.value) = 6
            /\ \A i \in 1..6 :
                  /\ (mcall.ret.value[i].tag = "None") = ~msettings[want[i].flag]
                  /\ msettings[want[i].flag] => mcall.ret.value[i] = want[i].r.ret

\* the keys a call was told to draw: those of the list passed, or `all` when
\* the argument is None
AskedKeys(arg, all) == IF arg.tag = "list" THEN arg.value ELSE all

\* C10: draw_vertices, draw_faces and draw_edges of the MeshArtist and
\* draw_nodes and draw_edges of the NetworkArtist draw the keys of the list
\* they are given, one primitive per key in the order of the list, and draw
\* every vertex, face, edge or node only when the argument is None.
C10_DrawsGivenKeys ==
    /\ call.op = "draw_nodes" =>
          DrawnKeys(call.hostcalls[1]) = AskedKeys(call.args[1], network.vertices)
    /\ call.op = "draw_edges" =>
          DrawnKeys(call.hostcalls[1]) = AskedKeys(call.args[1], network.edges)
    /\ mcall.op = "draw_vertices" =>
          DrawnKeys(mcall.hostcalls[1]) = AskedKeys(mcall.args[1], mesh.vertices)
    /\ mcall.op = "draw_faces" =>
          DrawnKeys(mcall.hostcalls[1]) = AskedKeys(mcall.args[1], mesh.faces)
    /\ mcall.op = "draw_edges" =>
          DrawnKeys(mcall.hostcalls[1]) = AskedKeys(mcall.args[1], mesh.edges)

-----------------------------------------------------------------------------
(* Properties of the object utilities *)

\* C7: get_object_by_name and delete_object_by_name raise KeyError, the
\* lookup error of the host, for a name no object of the scene has, and leave
\* the objects and the data blocks as they were.
C7_MissingNameRaises ==
    (/\ call.op \in {"get_object_by_name", "delete_object_by_name"}
     /\ \A h \in DOMAIN call.pre.bpy.objects : call.pre.bpy.objects[h].name # call.args[1])
    => (call.raised = "KeyError" /\ bpy = call.pre.bpy)

\* a delete_object_by_name of a missing name on a scene that has objects
C7_Witness ==
    /\ call.op = "delete_object_by_name"
    /\ call.raised = "KeyError"
    /\ DOMAIN bpy.objects # {}

\* C8: delete_object removes the object; the mesh or curve data block of an
\* object of type MESH or CURVE that has one is removed too; for any other
\* object no data block is removed.
C8_DeleteObject ==
    call.op = "delete_object" =>
        LET before == call.pre.bpy
            obj == call.args[1]
            o == before.objects[obj]
            gone == IF o.data.tag = "block" THEN {o.data.id} ELSE {}
        IN  /\ DOMAIN bpy.objects = DOMAIN before.objects \ {obj}
            /\ \A h \in DOMAIN bpy.objects : bpy.objects[h] = before.objects[h]
            /\ bpy.meshes = before.meshes \ (IF o.type = "MESH" THEN gone ELSE {})
            /\ bpy.curves = before.curves \ (IF o.type = "CURVE" THEN gone ELSE {})
            /\ bpy.lights = before.lights

\* a delete_object of a light, whose data block stays
C8_Witness ==
    /\ call.op = "delete_object"
    /\ call.pre.bpy.objects[call.args[1]].type = "LIGHT"
    /\ call.pre.bpy.objects[call.args[1]].data.tag = "block"
    /\ call.pre.bpy.objects[call.args[1]].data.id \in bpy.lights

\* C12: after delete_all_objects, whatever the scene was, no object of type
\* MESH or CURVE is left in the scene and no mesh or curve data block is left
\* in bpy.data.
C12_DeleteAllObjects ==
    call.op = "delete_all_objects" =>
        /\ \A h \in DOMAIN bpy.objects : bpy.objects[h].type \notin {"MESH", "CURVE"}
        /\ bpy.meshes = {}
        /\ bpy.curves = {}

\* a delete_all_objects on a scene that had a mesh object with its data
\* block, an object of another type, and a curve data block no object used
C12_Witness ==
    /\ call.op = "delete_all_objects"
    /\ \E h \in DOMAIN call.pre.bpy.objects :
          /\ call.pre.bpy.objects[h].type = "MESH"
          /\ Truthy(call.pre.bpy.objects[h].data)
    /\ \E h \in DOMAIN call.pre.bpy.objects :
          call.pre.bpy.objects[h].type \notin {"MESH", "CURVE"}
    /\ \E c \in call.pre.bpy.curves :
          \A h \in DOMAIN call.pre.bpy.objects : call.pre.bpy.objects[h].data # Block(c)

====
